---- MODULE Spec2Model ----
(***************************************************************************)
(* Model of decloud/production/monthly_synthesis_processor_s2s1.py:        *)
(*   - the script body (__main__): candidate selection, radar pairing,     *)
(*     truncation / padding, source gathering, inference call, crop and    *)
(*     writes;                                                             *)
(*   - monthly_synthesis_inference: the operator graph it builds and the   *)
(*     value that graph gives at one pixel.                                *)
(* Rasters are handles (records); library operators (Mosaic, BandMath,     *)
(* BandMathX, ManageNoData, ExtractROI, write) are modelled by the         *)
(* parameters the script hands them and by their documented pixel rule.    *)
(***************************************************************************)
EXTENDS Integers, Sequences, FiniteSets, TLC

VARIABLES
    params,             \* argparse namespace: ts, dem, ulx, uly, lrx, lry, write_intermediate
    out_dir_exists,     \* system.is_dir(params.out_dir) at start-up
    dir_created,        \* system.mkdir(params.out_dir) was called
    input_s2_products,  \* dict path -> product, in insertion order
    input_s1_products,  \* list of radar products (sorted in place by the loop)
    idx,                \* number of entries of input_s2_products already iterated
    candidates,         \* list of {'s2': product, 's1': Mosaic app}
    mosaics,            \* Mosaic apps constructed so far (their input lists)
    sources,            \* dict placeholder -> raster, in insertion order
    sources_scales,     \* dict placeholder -> scale
    processor,          \* what monthly_synthesis_inference returned / ExtractROI of it
    writes,             \* the write() calls issued so far
    pc,                 \* position in the script
    err,                \* how the run was aborted ("" while it is not)
    call,               \* arguments of a direct call of monthly_synthesis_inference
    graph,              \* operator graph built by monthly_synthesis_inference
    pixel               \* one evaluated pixel of that graph

vars == <<params, out_dir_exists, dir_created, input_s2_products, input_s1_products,
          idx, candidates, mosaics, sources, sources_scales, processor, writes,
          pc, err, call, graph, pixel>>

mainVars == <<params, out_dir_exists, dir_created, input_s2_products, input_s1_products,
              idx, candidates, mosaics, sources, sources_scales, processor, writes>>

-----------------------------------------------------------------------------
(* Bounds of the model *)

\* largest optical archive in the selection family of initial states
MaxS2 == 7
\* largest radar pool in the radar family of initial states
MaxS1 == 7
\* cloud percentages range over 0..MaxCloud
MaxCloud == 1
\* largest sources dict handed to a direct call of monthly_synthesis_inference
MaxSources == 2

-----------------------------------------------------------------------------
(* Program constants *)

s1_Nimages == 6
delta_days == 22
model_nb_images == 6
\* get_nodata_percentage() < 0.05, in hundredths
nodata_max == 5
\* pad=64 in the call of monthly_synthesis_inference
main_pad == 64
\* out_nodatavalue=-10000 in the call of monthly_synthesis_inference
main_out_nodatavalue == -10000
\* nodatavalues default: 0 for s1_t*, -10000 for s2_t*
s1_nodata == 0
s2_nodata == -10000
\* efield % 64
field_multiple == 64

-----------------------------------------------------------------------------
(* Python values *)

None == <<>>
Some(v) == <<v>>

\* truth value of an optional float: None and 0.0 are falsy
Truthy(x) == x # None /\ x[1] # 0

Abs(x) == IF x < 0 THEN -x ELSE x

Min(a, b) == IF a < b THEN a ELSE b

\* s[-n:]
LastN(s, n) == SubSeq(s, Len(s) - Min(n, Len(s)) + 1, Len(s))

\* s[:n]
FirstN(s, n) == SubSeq(s, 1, Min(n, Len(s)))

\* [x] * n
RECURSIVE Repeat(_, _)
Repeat(x, n) == IF n <= 0 THEN <<>> ELSE <<x>> \o Repeat(x, n - 1)

\* list.sort(key=...): stable; keys[i] is the key of s[i].
\* With reverse=True the order is descending and equal keys keep their
\* original relative order.
SortByKeys(s, keys, reverse) ==
    LET n == Len(s)
        Before(j, i) ==
            \/ (IF reverse THEN keys[j] > keys[i] ELSE keys[j] < keys[i])
            \/ (keys[j] = keys[i] /\ j < i)
        rank == [i \in 1..n |-> Cardinality({j \in 1..n : Before(j, i)}) + 1]
    IN  [r \in 1..n |-> s[CHOOSE i \in 1..n : rank[i] = r]]

\* dict.update({key: value}) on an insertion-ordered dict
DictUpdate(d, key, value) ==
    IF \E i \in 1..Len(d) : d[i].key = key
    THEN [i \in 1..Len(d) |-> IF d[i].key = key THEN [key |-> key, value |-> value] ELSE d[i]]
    ELSE Append(d, [key |-> key, value |-> value])

DictKeys(d) == {d[i].key : i \in 1..Len(d)}

DictGet(d, key) == d[CHOOSE i \in 1..Len(d) : d[i].key = key].value

-----------------------------------------------------------------------------
(* Products and placeholders *)

\* 's2_t{}'.format(i), 's1_t{}'.format(i)
S2Names == <<"s2_t0", "s2_t1", "s2_t2", "s2_t3", "s2_t4", "s2_t5",
             "s2_t6", "s2_t7", "s2_t8", "s2_t9">>
S1Names == <<"s1_t0", "s1_t1", "s1_t2", "s1_t3", "s1_t4", "s1_t5",
             "s1_t6", "s1_t7", "s1_t8", "s1_t9">>
S2Key(i) == S2Names[i + 1]
S1Key(i) == S1Names[i + 1]

\* product.get_raster_10m()
get_raster_10m(product) == [sensor |-> product.sensor, id |-> product.id, nb |-> product.nb]

\* the date / no-data filter of the selection loop
Qualifies(p) == Abs(p.t) < delta_days /\ p.nodata < nodata_max

\* _closest_date(x) for the optical product s2_product
closest_date(s2_product, x) == Abs(s2_product.t - x.t)

\* input_s1_products.sort(key=_closest_date, reverse=True)
SortS1(s1_products, s2_product) ==
    SortByKeys(s1_products,
               [i \in 1..Len(s1_products) |-> closest_date(s2_product, s1_products[i])],
               TRUE)

\* pyotb.App('Mosaic', input_s1_images_10m[-s1_Nimages:], nodata=0)
Mosaic(sorted_s1) ==
    [app |-> "Mosaic",
     il |-> LastN([i \in 1..Len(sorted_s1) |-> get_raster_10m(sorted_s1[i])], s1_Nimages),
     nodata |-> 0]

CloudKeys(cands) == [i \in 1..Len(cands) |-> cands[i].s2.cloud]

\* Truncate without the sort: keeps the first 6 in loop order
Truncate_unsorted(cands) ==
    IF Len(cands) > model_nb_images THEN FirstN(cands, model_nb_images) ELSE cands

\* if len(candidates) > model_nb_images: sort by cloud, keep the first 6
Truncate(cands) ==
    IF Len(cands) > model_nb_images
    THEN FirstN(SortByKeys(cands, CloudKeys(cands), FALSE), model_nb_images)
    ELSE cands

\* Pad without the sort: repeats the first candidate of the loop order
Pad_unsorted(cands) ==
    IF Len(cands) < model_nb_images
    THEN Repeat(cands[1], model_nb_images - Len(cands)) \o cands
    ELSE cands

\* if len(candidates) < model_nb_images: sort by cloud, left-pad with candidates[0]
\* (the value for a non-empty list; candidates[0] of an empty list raises, see PadOutcome)
Pad(cands) ==
    IF Len(cands) < model_nb_images
    THEN LET sorted == SortByKeys(cands, CloudKeys(cands), FALSE)
         IN  Repeat(sorted[1], model_nb_images - Len(sorted)) \o sorted
    ELSE cands

\* The padding statement written with a slice, candidates[:1] * k + candidates,
\* which does not raise on an empty list
PadOutcome_slice(cands) ==
    [raised |-> FALSE, candidates |-> IF Len(cands) = 0 THEN cands ELSE Pad(cands)]

\* The padding statement with its exception: candidates[0] raises IndexError
\* when the list is empty.
PadOutcome(cands) ==
    IF Len(cands) < model_nb_images /\ Len(cands) = 0
    THEN [raised |-> TRUE, candidates |-> cands]
    ELSE [raised |-> FALSE, candidates |-> Pad(cands)]

\* sources = {}; for i, candidate in enumerate(candidates): sources.update(...)
RECURSIVE GatherFrom(_, _, _)
GatherFrom(cands, i, d) ==
    IF i >= Len(cands) THEN d
    ELSE GatherFrom(cands, i + 1,
            DictUpdate(DictUpdate(d, S2Key(i), get_raster_10m(cands[i + 1].s2)),
                       S1Key(i), cands[i + 1].s1))

\* Gather pairing the optical raster of candidate i with the mosaic of the next one
Gather_mispaired(cands) ==
    GatherFrom([i \in 1..Len(cands) |->
                   [s2 |-> cands[i].s2, s1 |-> cands[(i % Len(cands)) + 1].s1]], 0, <<>>)

Gather(cands) == GatherFrom(cands, 0, <<>>)

-----------------------------------------------------------------------------
(* monthly_synthesis_inference: the operator graph *)

\* '20m' in placeholder
Has20m(placeholder) == placeholder \in {"s2_20m", "s2_20m_t0"}

\* the default nodatavalues dict: keys s1_t0..s1_t5 and s2_t0..s2_t5
NodataKeys == {S1Key(i) : i \in 0..5} \cup {S2Key(i) : i \in 0..5}

nodatavalues(placeholder) ==
    IF placeholder \in {S1Key(i) : i \in 0..5} THEN s1_nodata ELSE s2_nodata

\* placeholder != 'dem' and '20m' not in placeholder
InMask(placeholder) == placeholder # "dem" /\ ~Has20m(placeholder)

\* pyotb.get_nbchannels(source)
get_nbchannels(source) ==
    IF "app" \in DOMAIN source
    THEN (IF Len(source.il) = 0 THEN 0 ELSE source.il[1].nb)
    ELSE source.nb

\* src_rfield of one source
SrcRfield(placeholder, rfield, scales) ==
    IF placeholder \in DictKeys(scales)
    THEN rfield \div DictGet(scales, placeholder)
    ELSE rfield

\* The "for i, (placeholder, source) in enumerate(sources.items())" loop, from
\* iteration i on; acc holds infer_params, the mask expression terms, bm_params['il'] and k.
RECURSIVE SourceLoop(_, _, _, _, _)
SourceLoop(srcs, scales, rfield, i, acc) ==
    IF i > Len(srcs) THEN acc
    ELSE LET placeholder == srcs[i].key
             source == srcs[i].value
             entry == [il |-> <<source>>,
                       rfieldx |-> SrcRfield(placeholder, rfield, scales),
                       rfieldy |-> SrcRfield(placeholder, rfield, scales),
                       placeholder |-> placeholder]
             masked == InMask(placeholder)
         IN  IF masked /\ placeholder \notin NodataKeys
             THEN [acc EXCEPT !.keyerror = TRUE]
             ELSE SourceLoop(srcs, scales, rfield, i + 1,
                    [infer_params |-> Append(acc.infer_params, entry),
                     mask_terms |-> IF masked
                                    THEN Append(acc.mask_terms,
                                            [im |-> acc.k + 1,
                                             nb |-> get_nbchannels(source),
                                             nodata |-> nodatavalues(placeholder)])
                                    ELSE acc.mask_terms,
                     bm_il |-> IF masked THEN <<source>> ELSE acc.bm_il,
                     k |-> IF masked THEN acc.k + 1 ELSE acc.k,
                     keyerror |-> FALSE])

LoopStart == [infer_params |-> <<>>, mask_terms |-> <<>>, bm_il |-> <<>>, k |-> 0,
              keyerror |-> FALSE]

\* rmzeros: BandMathX clamp for uint16, else the inference output itself
RmzerosApp(out_pixeltype) == IF out_pixeltype = "uint16" THEN "BandMathX" ELSE "infer"

\* monthly_synthesis_inference(sources, sources_scales, pad, ts, ..., out_nodatavalue, out_pixeltype)
Inference(srcs, scales, pad, ts, out_nodatavalue, out_pixeltype) ==
    IF ts % field_multiple # 0
    THEN [status |-> "quit"]
    ELSE LET rfield == ts + 2 * pad
             loop == SourceLoop(srcs, scales, rfield, 1, LoopStart)
         IN  IF loop.keyerror
             THEN [status |-> "KeyError"]
             ELSE [status |-> "built",
                   nsources |-> Len(srcs),
                   infer_params |-> loop.infer_params,
                   efield |-> ts,
                   rmzeros |-> RmzerosApp(out_pixeltype),
                   mask_terms |-> loop.mask_terms,
                   bm_il |-> loop.bm_il,
                   closing_radius |-> 5,
                   erode_radius |-> pad,
                   mnodata_in |-> "rmzeros",
                   mnodata_mask |-> "resample",
                   ndval |-> out_nodatavalue,
                   out_pixeltype |-> out_pixeltype]

NoGraph == [status |-> "none"]
NoPixel == [status |-> "none"]

-----------------------------------------------------------------------------
(* Pixel rule of the operators of the graph *)

\* values a source band can take at the pixel
SourceValues == {s2_nodata, s1_nodata, 7}
\* values the inference output can take at the pixel
ModelValues == {-1, 0, 1, 2}
\* bands of the inference output
OutBands == 1..2

\* the BandMath of the mask can be evaluated: 'il' was given and every
\* im{k}b{b} of the expression names a band of an input of the list
BandMathOK(g) ==
    /\ Len(g.bm_il) >= 1
    /\ \A j \in 1..Len(g.mask_terms) :
          /\ g.mask_terms[j].im <= Len(g.bm_il)
          /\ g.mask_terms[j].nb <= get_nbchannels(g.bm_il[g.mask_terms[j].im])

\* "0||im1b1==nd&&im1b2==nd||...?0:255" on px, px[k][b] being the value of im{k}b{b}
BandMath(terms, px) ==
    IF \E j \in 1..Len(terms) :
          \A b \in 1..terms[j].nb : px[terms[j].im][b] = terms[j].nodata
    THEN 0 ELSE 255

\* RmZeros replacing only the zeros: (im1b{b}==0 ? 1 : im1b{b})
RmZeros_zeroOnly(app, v) ==
    IF app = "BandMathX"
    THEN [b \in DOMAIN v |-> IF v[b] = 0 THEN 1 ELSE v[b]]
    ELSE v

\* (im1b{b}<=1 ? 1 : im1b{b}) for every band, or the inference output itself
RmZeros(app, v) ==
    IF app = "BandMathX"
    THEN [b \in DOMAIN v |-> IF v[b] <= 1 THEN 1 ELSE v[b]]
    ELSE v

\* ManageNoData, mode apply: ndval where the mask is 0, the input elsewhere
ManageNoData(inpx, maskpx, ndval) ==
    IF maskpx = 0 THEN [b \in DOMAIN inpx |-> ndval] ELSE inpx

\* the pixel values of the inputs of the mask BandMath: one band tuple per input
RECURSIVE PixelsOf(_)
PixelsOf(il) ==
    IF Len(il) = 0 THEN {<<>>}
    ELSE {<<v>> \o rest : v \in [1..get_nbchannels(il[1]) -> SourceValues],
                          rest \in PixelsOf(Tail(il))}

\* Evaluate with ManageNoData fed by infer instead of rmzeros
Evaluate_inferIn(g, px, v, m) ==
    [status |-> "ok",
     src |-> px,
     bm |-> BandMath(g.mask_terms, px),
     resample |-> m,
     infer |-> v,
     rmzeros |-> RmZeros(g.rmzeros, v),
     out |-> ManageNoData(v, m, g.ndval)]

\* the graph at one pixel: px are the input values, v the inference output,
\* m the value of the closed, eroded and resampled mask
Evaluate(g, px, v, m) ==
    [status |-> "ok",
     src |-> px,
     bm |-> BandMath(g.mask_terms, px),
     resample |-> m,
     infer |-> v,
     rmzeros |-> RmZeros(g.rmzeros, v),
     out |-> ManageNoData(RmZeros(g.rmzeros, v), m, g.ndval)]

-----------------------------------------------------------------------------
(* The script: crop and writes *)

\* if params.lrx and params.lry and params.ulx and params.uly
CropWanted(p) == Truthy(p.lrx) /\ Truthy(p.lry) /\ Truthy(p.ulx) /\ Truthy(p.uly)

\* pyotb.ExtractROI({'in': raster, 'mode': 'extent', ...})
ExtractROI(raster, p) ==
    [app |-> "ExtractROI", in |-> raster,
     ulx |-> p.ulx, uly |-> p.uly, lrx |-> p.lrx, lry |-> p.lry]

MaybeCrop(raster, p) == IF CropWanted(p) THEN ExtractROI(raster, p) ELSE raster

\* for name, source in sources.items(): if name != 'dem': ... write(...)
RECURSIVE IntermediateWrites(_, _, _)
IntermediateWrites(srcs, i, p) ==
    IF i > Len(srcs) THEN <<>>
    ELSE (IF srcs[i].key # "dem"
          THEN <<[name |-> srcs[i].key, raster |-> MaybeCrop(srcs[i].value, p)]>>
          ELSE <<>>)
         \o IntermediateWrites(srcs, i + 1, p)

\* if params.dem is not None: sources.update({"dem": params.dem})
WithDem(srcs, p) ==
    IF p.dem # None THEN DictUpdate(srcs, "dem", [sensor |-> "dem", id |-> p.dem[1], nb |-> 1])
    ELSE srcs

\* sources_scales = {}; if params.dem is not None: sources_scales.update({"dem": 2})
Scales(p) == IF p.dem # None THEN DictUpdate(<<>>, "dem", 2) ELSE <<>>

-----------------------------------------------------------------------------
(* Initial states *)

SeqsUpTo(S, n) == UNION {[1..k -> S] : k \in 0..n}

\* optical products that pass the filter, one per cloud percentage
GoodKinds == {[t |-> 0, nodata |-> 0, cloud |-> c] : c \in 0..MaxCloud}
\* optical products at the edges of the filter
EdgeKinds == {[t |-> 21, nodata |-> 4, cloud |-> 0], [t |-> 0 - 21, nodata |-> 4, cloud |-> 1],
              [t |-> 22, nodata |-> 0, cloud |-> 0], [t |-> 0 - 22, nodata |-> 0, cloud |-> 0],
              [t |-> 0, nodata |-> 5, cloud |-> 0]}
\* optical products of the radar family: they pass the filter, at two dates
DatedKinds == {[t |-> d, nodata |-> 0, cloud |-> 0] : d \in {0, 1}}
\* acquisition dates of the radar products of the radar family
RadarDates == {0 - 1, 1}

S2Archive(kinds) ==
    [i \in 1..Len(kinds) |->
        [sensor |-> "s2", id |-> i, t |-> kinds[i].t, nodata |-> kinds[i].nodata,
         cloud |-> kinds[i].cloud, nb |-> 4]]

S1Pool(dates) ==
    [i \in 1..Len(dates) |-> [sensor |-> "s1", id |-> i, t |-> dates[i], nb |-> 2]]

Optional(S) == {None} \cup {Some(v) : v \in S}

DefaultParams ==
    [ts |-> 256, dem |-> None, ulx |-> None, uly |-> None, lrx |-> None, lry |-> None,
     write_intermediate |-> FALSE]

AllParams ==
    [ts : {64, 100}, dem : Optional({"dem.tif"}),
     ulx : Optional({0, 10}), uly : Optional({0, 10}),
     lrx : Optional({0, 10}), lry : Optional({0, 10}),
     write_intermediate : BOOLEAN]

NoCall == [mode |-> "script"]

\* state of the script once the products are loaded (line 297)
Loaded(s2, s1, p, dir) ==
    /\ input_s2_products = s2
    /\ input_s1_products = s1
    /\ params = p
    /\ out_dir_exists = dir
    /\ dir_created = FALSE
    /\ idx = 0
    /\ candidates = <<>>
    /\ mosaics = <<>>
    /\ sources = <<>>
    /\ sources_scales = <<>>
    /\ processor = [app |-> "none"]
    /\ writes = <<>>
    /\ pc = "mkdir"
    /\ err = ""
    /\ call = NoCall
    /\ graph = NoGraph
    /\ pixel = NoPixel

\* archives of products that all pass the filter, up to MaxS2 of them
InitSelection ==
    \E kinds \in SeqsUpTo(GoodKinds, MaxS2) :
        Loaded(S2Archive(kinds), S1Pool(<<0, 3>>), DefaultParams, FALSE)

\* the same archives, all of one cloud percentage, with --dem given
InitSelectionDem ==
    \E kinds \in SeqsUpTo({[t |-> 0, nodata |-> 0, cloud |-> 0]}, MaxS2) :
        Loaded(S2Archive(kinds), S1Pool(<<0, 3>>),
               [DefaultParams EXCEPT !.dem = Some("dem.tif")], FALSE)

\* radar pools of up to MaxS1 products, with one or two optical products
InitRadar ==
    \E kinds \in SeqsUpTo(DatedKinds, 2) \ {<<>>},
       dates \in SeqsUpTo(RadarDates, MaxS1) \ {<<>>} :
        Loaded(S2Archive(kinds), S1Pool(dates), DefaultParams, FALSE)

\* archives mixing products inside and outside the filter, good and bad tile sizes
InitFilter ==
    \E kinds \in SeqsUpTo(GoodKinds \cup EdgeKinds, 2), ts \in {64, 100}, dir \in BOOLEAN :
        Loaded(S2Archive(kinds), S1Pool(<<0, 3>>), [DefaultParams EXCEPT !.ts = ts], dir)

\* every combination of the command line options, on zero or one product
InitParams ==
    \E kinds \in SeqsUpTo({[t |-> 0, nodata |-> 0, cloud |-> 0]}, 1), p \in AllParams :
        Loaded(S2Archive(kinds), S1Pool(<<0>>), p, FALSE)

Init == InitSelection \/ InitSelectionDem \/ InitRadar \/ InitFilter \/ InitParams

-----------------------------------------------------------------------------
(* The script, statement by statement *)

\* if not system.is_dir(params.out_dir): system.mkdir(params.out_dir)
Mkdir ==
    /\ pc = "mkdir"
    /\ dir_created' = ~out_dir_exists
    /\ pc' = "loop"
    /\ UNCHANGED <<params, out_dir_exists, input_s2_products, input_s1_products, idx,
                   candidates, mosaics, sources, sources_scales, processor, writes,
                   err, call, graph, pixel>>

\* one iteration of "for s2_filepath, s2_product in input_s2_products.items()"
SelectProduct ==
    /\ pc = "loop"
    /\ idx < Len(input_s2_products)
    /\ LET s2_product == input_s2_products[idx + 1]
           sorted == SortS1(input_s1_products, s2_product)
           s1t == Mosaic(sorted)
       IN  IF Qualifies(s2_product)
           THEN /\ input_s1_products' = sorted
                /\ mosaics' = Append(mosaics, s1t)
                /\ candidates' = Append(candidates, [s2 |-> s2_product, s1 |-> s1t])
           ELSE UNCHANGED <<input_s1_products, mosaics, candidates>>
    /\ idx' = idx + 1
    /\ UNCHANGED <<params, out_dir_exists, dir_created, input_s2_products, sources,
                   sources_scales, processor, writes, pc, err, call, graph, pixel>>

\* end of the loop, then "if len(candidates) > model_nb_images: ..."
TruncateStep ==
    /\ pc = "loop"
    /\ idx = Len(input_s2_products)
    /\ candidates' = Truncate(candidates)
    /\ pc' = "pad"
    /\ UNCHANGED <<params, out_dir_exists, dir_created, input_s2_products,
                   input_s1_products, idx, mosaics, sources, sources_scales, processor,
                   writes, err, call, graph, pixel>>

\* "if len(candidates) < model_nb_images: ..."
PadStep ==
    /\ pc = "pad"
    /\ LET r == PadOutcome(candidates)
       IN  IF r.raised
           THEN /\ pc' = "error"
                /\ err' = "IndexError"
                /\ UNCHANGED candidates
           ELSE /\ pc' = "gather"
                /\ candidates' = r.candidates
                /\ UNCHANGED err
    /\ UNCHANGED <<params, out_dir_exists, dir_created, input_s2_products,
                   input_s1_products, idx, mosaics, sources, sources_scales, processor,
                   writes, call, graph, pixel>>

\* "Gathering as a dictionary" and "Sources scales"
GatherSources ==
    /\ pc = "gather"
    /\ sources' = WithDem(Gather(candidates), params)
    /\ sources_scales' = Scales(params)
    /\ pc' = "inference"
    /\ UNCHANGED <<params, out_dir_exists, dir_created, input_s2_products,
                   input_s1_products, idx, candidates, mosaics, processor, writes,
                   err, call, graph, pixel>>

\* processor = monthly_synthesis_inference(sources=sources, ..., pad=64, ts=params.ts,
\*                 out_nodatavalue=-10000, out_pixeltype=ImagePixelType_int16)
InferenceCall ==
    /\ pc = "inference"
    /\ LET g == Inference(sources, sources_scales, main_pad, params.ts,
                          main_out_nodatavalue, "int16")
       IN  /\ graph' = g
           /\ IF g.status = "built"
              THEN /\ processor' = [app |-> "ManageNoData"]
                   /\ pc' = "crop"
                   /\ UNCHANGED err
              ELSE /\ pc' = IF g.status = "quit" THEN "quit" ELSE "error"
                   /\ err' = g.status
                   /\ UNCHANGED processor
    /\ UNCHANGED <<params, out_dir_exists, dir_created, input_s2_products,
                   input_s1_products, idx, candidates, mosaics, sources, sources_scales,
                   writes, call, pixel>>

\* "If needed, extracting ROI of the reconstructed image"
CropStep ==
    /\ pc = "crop"
    /\ processor' = MaybeCrop(processor, params)
    /\ pc' = "write"
    /\ UNCHANGED <<params, out_dir_exists, dir_created, input_s2_products,
                   input_s1_products, idx, candidates, mosaics, sources, sources_scales,
                   writes, err, call, graph, pixel>>

\* processor.write(out=output_path, filename_extension=ext_fname): the write
\* request as the script issues it; what the library computes for a pixel of the
\* graph is EvalPixel
WriteOutput ==
    /\ pc = "write"
    /\ writes' = Append(writes, [name |-> "monthly_synthesis", raster |-> processor])
    /\ pc' = IF params.write_intermediate THEN "intermediate" ELSE "done"
    /\ UNCHANGED <<params, out_dir_exists, dir_created, input_s2_products,
                   input_s1_products, idx, candidates, mosaics, sources, sources_scales,
                   processor, err, call, graph, pixel>>

\* "Writing the inputs sources of the model"
WriteIntermediate ==
    /\ pc = "intermediate"
    /\ writes' = writes \o IntermediateWrites(sources, 1, params)
    /\ pc' = "done"
    /\ UNCHANGED <<params, out_dir_exists, dir_created, input_s2_products,
                   input_s1_products, idx, candidates, mosaics, sources, sources_scales,
                   processor, err, call, graph, pixel>>

Next ==
    \/ Mkdir
    \/ SelectProduct
    \/ TruncateStep
    \/ PadStep
    \/ GatherSources
    \/ InferenceCall
    \/ CropStep
    \/ WriteOutput
    \/ WriteIntermediate

Spec == Init /\ [][Next]_vars

-----------------------------------------------------------------------------
(* monthly_synthesis_inference called on its own *)

CallPlaceholders == {"s2_t0", "s1_t0", "dem", "s2_20m"}

\* sources dicts: distinct placeholders, each with a raster of one or two bands
SourceDicts ==
    {d \in SeqsUpTo([key : CallPlaceholders,
                     value : [sensor : {"file"}, id : {0}, nb : 1..2]], MaxSources) :
        /\ Len(d) >= 1
        /\ \A i, j \in 1..Len(d) : i # j => d[i].key # d[j].key
        /\ \A i \in 1..Len(d) : d[i].value.id = 0}

WithIds(d) == [i \in 1..Len(d) |-> [d[i] EXCEPT !.value.id = i]]

InitInfer ==
    \E d \in SourceDicts, ts \in {64, 100}, pt \in {"uint16", "int16"},
       nd \in {main_out_nodatavalue, 0}, sc \in {<<>>, DictUpdate(<<>>, "dem", 2)} :
        /\ call = [mode |-> "call", sources |-> WithIds(d), sources_scales |-> sc,
                   pad |-> main_pad, ts |-> ts, out_nodatavalue |-> nd, out_pixeltype |-> pt]
        /\ pc = "call"
        /\ err = ""
        /\ graph = NoGraph
        /\ pixel = NoPixel
        /\ input_s2_products = <<>>
        /\ input_s1_products = <<>>
        /\ params = DefaultParams
        /\ out_dir_exists = FALSE
        /\ dir_created = FALSE
        /\ idx = 0
        /\ candidates = <<>>
        /\ mosaics = <<>>
        /\ sources = <<>>
        /\ sources_scales = <<>>
        /\ processor = [app |-> "none"]
        /\ writes = <<>>

\* the body of monthly_synthesis_inference, up to "return mnodata"
DirectCall ==
    /\ pc = "call"
    /\ LET g == Inference(call.sources, call.sources_scales, call.pad, call.ts,
                          call.out_nodatavalue, call.out_pixeltype)
       IN  /\ graph' = g
           /\ pc' = IF g.status = "built" THEN "built"
                    ELSE IF g.status = "quit" THEN "quit" ELSE "error"
           /\ err' = IF g.status = "built" THEN "" ELSE g.status
    /\ UNCHANGED <<call, pixel>>
    /\ UNCHANGED mainVars

\* the returned raster at one pixel; the evaluation fails when the mask
\* BandMath cannot be evaluated
EvalPixel ==
    /\ pc = "built"
    /\ IF BandMathOK(graph)
       THEN \E px \in PixelsOf(graph.bm_il), v \in [OutBands -> ModelValues], m \in {0, 255} :
                pixel' = Evaluate(graph, px, v, m)
       ELSE pixel' = [status |-> "error"]
    /\ pc' = "evaluated"
    /\ UNCHANGED <<call, graph, err>>
    /\ UNCHANGED mainVars

NextInfer == DirectCall \/ EvalPixel

SpecInfer == InitInfer /\ [][NextInfer]_vars

-----------------------------------------------------------------------------
(* Properties *)

T == model_nb_images

\* the optical products that pass the date / no-data filter, in archive order
QualifyingSeq == SelectSeq(input_s2_products, Qualifies)
n_qualifying == Len(QualifyingSeq)

AfterTruncation == pc \in {"pad", "gather", "inference", "crop", "write", "intermediate",
                           "done", "quit"}
AfterPadding == pc \in {"gather", "inference", "crop", "write", "intermediate", "done", "quit"}

\* C1: with 1 <= n < T qualifying products, the candidate list after the padding
\* step has length T, its first T - n entries are one and the same candidate, that
\* candidate has the lowest cloud percentage of the n qualifying products, and the
\* last n entries are the n qualifying products, each exactly once.
C1_Padding ==
    (AfterPadding /\ n_qualifying >= 1 /\ n_qualifying < T) =>
        /\ Len(candidates) = T
        /\ \A i \in 1..(T - n_qualifying) : candidates[i] = candidates[1]
        /\ \E j \in 1..n_qualifying : QualifyingSeq[j] = candidates[1].s2
        /\ \A j \in 1..n_qualifying : candidates[1].s2.cloud <= QualifyingSeq[j].cloud
        /\ \A j \in 1..n_qualifying :
              Cardinality({i \in (T - n_qualifying + 1)..T :
                              candidates[i].s2 = QualifyingSeq[j]}) = 1

\* C1 witness: two qualifying products, the second one the clearer, padded
C1_Witness ==
    /\ pc = "gather"
    /\ n_qualifying = 2
    /\ QualifyingSeq[2].cloud < QualifyingSeq[1].cloud
    /\ Len(candidates) = T

\* C2: with more than T qualifying products, the candidate list after the
\* truncation step has length T, non-decreasing cloud percentages, and these are
\* the T smallest cloud percentages of the qualifying set (counted with repeats).
C2_Truncation ==
    (AfterTruncation /\ n_qualifying > T) =>
        /\ Len(candidates) = T
        /\ \A i \in 1..(Len(candidates) - 1) :
              candidates[i].s2.cloud <= candidates[i + 1].s2.cloud
        /\ \A c \in 0..(MaxCloud + 1) :
              Cardinality({i \in 1..Len(candidates) : candidates[i].s2.cloud <= c})
                = Min(T, Cardinality({j \in 1..n_qualifying : QualifyingSeq[j].cloud <= c}))

\* C2 witness: more than T qualifying products, the first of the archive is
\* cloudier than everything kept
C2_Witness ==
    /\ pc = "pad"
    /\ n_qualifying > T
    /\ Len(candidates) = T
    /\ QualifyingSeq[1].cloud > candidates[T].s2.cloud

\* the radar products a mosaic should hold for optical product p: the s1_Nimages
\* closest ones, equal distances ranked by position in the catalog (the id)
ExpectedPool(p) ==
    LET pool == {input_s1_products[i] : i \in 1..Len(input_s1_products)}
        Closer(a, b) == \/ closest_date(p, a) < closest_date(p, b)
                        \/ (closest_date(p, a) = closest_date(p, b) /\ a.id < b.id)
    IN  {r.id : r \in {x \in pool : Cardinality({y \in pool : Closer(y, x)}) < s1_Nimages}}

\* C3: the mosaic of every qualifying optical product holds exactly the
\* s1_Nimages radar products closest in time, ties at the cut-off going to the
\* products that come first in the catalog, whatever was processed before.
C3_RadarPairing ==
    \A j \in 1..Len(mosaics) :
        {mosaics[j].il[k].id : k \in 1..Len(mosaics[j].il)} = ExpectedPool(QualifyingSeq[j])

\* C4: with no qualifying product the run ends in the IndexError of the padding
\* statement, an abort the non-empty case never takes; no inference operator is
\* built and nothing is written.
C4_ZeroCandidates ==
    /\ (n_qualifying = 0) =>
          /\ pc \in {"mkdir", "loop", "pad", "error"}
          /\ (pc = "error" => err = "IndexError")
          /\ graph = NoGraph
          /\ processor = [app |-> "none"]
          /\ writes = <<>>
    /\ (n_qualifying >= 1) => err # "IndexError"

\* C4 witness: an archive with products, none of which qualifies, aborted
C4_Witness ==
    /\ pc = "error"
    /\ err = "IndexError"
    /\ Len(input_s2_products) >= 1
    /\ n_qualifying = 0

\* C5: when --ts is not a multiple of 64, at the abort the output directory has
\* not been created, no Mosaic and no inference operator has been constructed
\* and nothing has been written.
C5_NoPartialExecution ==
    (pc = "quit") =>
        /\ ~dir_created
        /\ mosaics = <<>>
        /\ graph.status # "built"
        /\ writes = <<>>

IsCropped(raster) == "app" \in DOMAIN raster /\ raster.app = "ExtractROI"

AllGiven(p) == p.ulx # None /\ p.uly # None /\ p.lrx # None /\ p.lry # None

\* C8: every written raster is cropped when all four of --ulx, --uly, --lrx,
\* --lry are given, whatever their values, and is not cropped otherwise.
C8_ExtentCrop ==
    \A i \in 1..Len(writes) : IsCropped(writes[i].raster) <=> AllGiven(params)

\* the sources dict the graph was built from
GraphSources == IF call = NoCall THEN sources ELSE call.sources

InMaskEntry(e) == InMask(e.key)

\* the rasters of the placeholders that are neither 'dem' nor '20m', in order
MaskedRasters ==
    LET m == SelectSeq(GraphSources, InMaskEntry)
    IN  [k \in 1..Len(m) |-> m[k].value]

\* C9: the input list of the mask BandMath holds, at position k, the raster of
\* the k-th placeholder that is neither 'dem' nor '20m'; an evaluated mask
\* pixel is 0 exactly when one of these sources has every band at its no-data
\* value.
C9_MaskInputs ==
    /\ (graph.status = "built") => graph.bm_il = MaskedRasters
    /\ (pc = "evaluated") =>
          /\ pixel.status = "ok"
          /\ (pixel.bm = 0) <=>
                \E k \in 1..Len(graph.mask_terms) :
                    \A b \in 1..graph.mask_terms[k].nb :
                        pixel.src[k][b] = graph.mask_terms[k].nodata

\* C6: in the returned raster, a pixel whose resampled mask is 0 holds
\* out_nodatavalue in every band, and a pixel whose resampled mask is not 0
\* holds the (clamped, when the clamp applies) inference output.
C6_MaskedOutput ==
    (pixel.status = "ok") =>
        \A b \in DOMAIN pixel.out :
            /\ (pixel.resample = 0) => pixel.out[b] = call.out_nodatavalue
            /\ (pixel.resample # 0) =>
                  pixel.out[b] = IF call.out_pixeltype = "uint16"
                                 THEN (IF pixel.infer[b] <= 1 THEN 1 ELSE pixel.infer[b])
                                 ELSE pixel.infer[b]

\* C6 witness: a masked pixel whose inference output was not the no-data value
C6_Witness ==
    /\ pixel.status = "ok"
    /\ pixel.resample = 0
    /\ pixel.infer[1] # call.out_nodatavalue
    /\ pixel.out[1] = call.out_nodatavalue

\* C7: for unsigned 16-bit output every band value v handed to the masking is 1
\* when v <= 1 and v otherwise, so no unmasked output band is 0; for any other
\* pixel type the inference output is handed on unchanged.
C7_PixelClamp ==
    (pixel.status = "ok") =>
        IF call.out_pixeltype = "uint16"
        THEN \A b \in DOMAIN pixel.infer :
                /\ pixel.rmzeros[b] = (IF pixel.infer[b] <= 1 THEN 1 ELSE pixel.infer[b])
                /\ (pixel.resample # 0) => pixel.out[b] # 0
        ELSE pixel.rmzeros = pixel.infer

\* C7 witness: unsigned 16-bit output, a zero and a negative inference value on
\* an unmasked pixel
C7_Witness ==
    /\ pixel.status = "ok"
    /\ call.out_pixeltype = "uint16"
    /\ pixel.infer[1] = 0
    /\ pixel.infer[2] < 0
    /\ pixel.resample = 255
    /\ pixel.out = <<1, 1>>

\* C10: at the call of monthly_synthesis_inference the sources dict holds
\* exactly s2_t0..s2_t5 and s1_t0..s1_t5, s2_t{i} and s1_t{i} being the optical
\* raster of candidate i and the mosaic built for that same product, plus 'dem'
\* (with scale 2) if and only if --dem was given.
C10_SourceStack ==
    (pc = "inference") =>
        /\ n_qualifying >= 1
        /\ Len(candidates) = T
        /\ DictKeys(sources) \ {"dem"} = {S2Key(i) : i \in 0..5} \cup {S1Key(i) : i \in 0..5}
        /\ Len(sources) = 12 + (IF params.dem # None THEN 1 ELSE 0)
        /\ \A i \in 0..5 :
              /\ DictGet(sources, S2Key(i)) = get_raster_10m(candidates[i + 1].s2)
              /\ DictGet(sources, S1Key(i)) = candidates[i + 1].s1
              /\ \E j \in 1..n_qualifying :
                    /\ QualifyingSeq[j] = candidates[i + 1].s2
                    /\ mosaics[j] = DictGet(sources, S1Key(i))
        /\ ("dem" \in DictKeys(sources)) <=> (params.dem # None)
        /\ IF params.dem # None
           THEN sources_scales = <<[key |-> "dem", value |-> 2]>>
           ELSE sources_scales = <<>>

\* C10 witness: more than T qualifying products and --dem given, at the call
C10_Witness ==
    /\ pc = "inference"
    /\ n_qualifying > T
    /\ params.dem # None
    /\ Len(sources) = 13

====
